---- MODULE Spec2Model ----
(***************************************************************************)
(* Model of desktop/src-tauri/src/lib.rs: the Streamio desktop bootstrap.  *)
(*                                                                         *)
(* run() chains a host builder (three plugins, a setup hook, an invoke     *)
(* handler) and hands control to the host, which builds the application,   *)
(* executes the setup hook and then dispatches frontend invocations until  *)
(* it exits.  greet() is the only command; it formats its argument into a  *)
(* fixed template.  Strings are sequences of one-character strings.        *)
(***************************************************************************)
EXTENDS Naturals, Sequences, FiniteSets, TLC

\* Longest frontend-supplied name that is enumerated.
MaxNameLen == 2

\* Characters a name is drawn from: a plain letter and the two characters
\* that are significant to a formatting template.
Alphabet == {"a", "{", "}"}

\* All names of length at most MaxNameLen.
Names == UNION {[1..n -> Alphabet] : n \in 0..MaxNameLen}

\* The format string literal of greet, character by character.
Template ==
  <<"H", "e", "l", "l", "o", ",", " ", "{", "}", "!", " ",
    "W", "e", "l", "c", "o", "m", "e", " ", "t", "o", " ",
    "S", "t", "r", "e", "a", "m", "i", "o", ".">>

\* A variant of the formatter that strips braces from the argument.
RECURSIVE Sanitize(_)
Sanitize(s) ==
  IF s = <<>> THEN <<>>
  ELSE IF Head(s) \in {"{", "}"} THEN Sanitize(Tail(s))
  ELSE <<Head(s)>> \o Sanitize(Tail(s))

RECURSIVE FormatSanitized(_, _)
FormatSanitized(tpl, arg) ==
  IF tpl = <<>> THEN <<>>
  ELSE IF Len(tpl) >= 2 /\ tpl[1] = "{" /\ tpl[2] = "}"
    THEN Sanitize(arg) \o FormatSanitized(Tail(Tail(tpl)), arg)
  ELSE <<Head(tpl)>> \o FormatSanitized(Tail(tpl), arg)

\* format!(tpl, arg): the template is scanned left to right; "{{" and "}}"
\* are escapes for a literal brace, "{}" is replaced by the argument's
\* Display output (the string itself, never re-scanned), every other
\* character is copied.
RECURSIVE Format(_, _)
Format(tpl, arg) ==
  IF tpl = <<>> THEN <<>>
  ELSE IF Len(tpl) >= 2 /\ tpl[1] = "{" /\ tpl[2] = "{"
    THEN <<"{">> \o Format(Tail(Tail(tpl)), arg)
  ELSE IF Len(tpl) >= 2 /\ tpl[1] = "}" /\ tpl[2] = "}"
    THEN <<"}">> \o Format(Tail(Tail(tpl)), arg)
  ELSE IF Len(tpl) >= 2 /\ tpl[1] = "{" /\ tpl[2] = "}"
    THEN arg \o Format(Tail(Tail(tpl)), arg)
  ELSE <<Head(tpl)>> \o Format(Tail(tpl), arg)

\* fn greet(name: &str) -> String
greet(name) == Format(Template, name)

\* The plugins in the order run() attaches them.
PluginOrder == <<"libmpv", "http", "store">>

\* No invocation has been answered yet.
NoResponse == [cmd |-> "none", arg |-> <<>>, ok |-> FALSE, value |-> <<>>]

VARIABLES
  debug,       \* cfg(debug_assertions): TRUE in a debug build
  mainWindow,  \* the host configuration declares a window labelled "main"
  pc,          \* the next step of run()
  plugins,     \* plugins attached to the builder, in attachment order
  setupHook,   \* the setup closure has been handed to the builder
  handlers,    \* commands bound by invoke_handler
  window,      \* result of get_webview_window("main") inside the closure
  lookups,     \* number of window lookups performed
  devtools,    \* number of times open_devtools() was called
  failure,     \* why the process panicked: "none", "host" or "window"
  ranLoop,     \* the host's run loop has been entered
  response,    \* answer to the latest frontend invocation
  remembered   \* an earlier answer kept by the frontend

vars == <<debug, mainWindow, pc, plugins, setupHook, handlers, window,
          lookups, devtools, failure, ranLoop, response, remembered>>

\* State of the application host, as opposed to what the frontend holds.
appVars == <<debug, mainWindow, pc, plugins, setupHook, handlers, window,
             lookups, devtools, failure, ranLoop>>

\* The bootstrap's coarse lifecycle.
Lifecycle ==
  IF pc = "loop" THEN "running"
  ELSE IF pc = "terminated" THEN "terminated"
  ELSE "not_started"

Init ==
  /\ debug \in BOOLEAN
  /\ mainWindow \in BOOLEAN
  /\ pc = "default"
  /\ plugins = <<>>
  /\ setupHook = FALSE
  /\ handlers = {}
  /\ window = "unset"
  /\ lookups = 0
  /\ devtools = 0
  /\ failure = "none"
  /\ ranLoop = FALSE
  /\ response = NoResponse
  /\ remembered = NoResponse

\* tauri::Builder::default()
BuilderDefault ==
  /\ pc = "default"
  /\ pc' = "plugin_libmpv"
  /\ plugins' = <<>>
  /\ setupHook' = FALSE
  /\ handlers' = {}
  /\ UNCHANGED <<debug, mainWindow, window, lookups, devtools, failure,
                 ranLoop, response, remembered>>

\* .plugin(tauri_plugin_libmpv::init())
PluginLibmpv ==
  /\ pc = "plugin_libmpv"
  /\ plugins' = Append(plugins, "libmpv")
  /\ pc' = "plugin_http"
  /\ UNCHANGED <<debug, mainWindow, setupHook, handlers, window, lookups,
                 devtools, failure, ranLoop, response, remembered>>

\* The http plugin attached ahead of the plugins already present.
PluginHttpFirst ==
  /\ pc = "plugin_http"
  /\ plugins' = <<"http">> \o plugins
  /\ pc' = "plugin_store"
  /\ UNCHANGED <<debug, mainWindow, setupHook, handlers, window, lookups,
                 devtools, failure, ranLoop, response, remembered>>

\* .plugin(tauri_plugin_http::init())
PluginHttp ==
  /\ pc = "plugin_http"
  /\ plugins' = Append(plugins, "http")
  /\ pc' = "plugin_store"
  /\ UNCHANGED <<debug, mainWindow, setupHook, handlers, window, lookups,
                 devtools, failure, ranLoop, response, remembered>>

\* The store plugin built but never attached.
PluginStoreDropped ==
  /\ pc = "plugin_store"
  /\ pc' = "setup"
  /\ UNCHANGED <<debug, mainWindow, plugins, setupHook, handlers, window,
                 lookups, devtools, failure, ranLoop, response, remembered>>

\* .plugin(tauri_plugin_store::Builder::new().build())
PluginStore ==
  /\ pc = "plugin_store"
  /\ plugins' = Append(plugins, "store")
  /\ pc' = "setup"
  /\ UNCHANGED <<debug, mainWindow, setupHook, handlers, window, lookups,
                 devtools, failure, ranLoop, response, remembered>>

\* The closure body executed at the moment it is handed to the builder.
BuilderSetupEager ==
  /\ pc = "setup"
  /\ setupHook' = TRUE
  /\ devtools' = IF debug /\ mainWindow THEN devtools + 1 ELSE devtools
  /\ pc' = "invoke_handler"
  /\ UNCHANGED <<debug, mainWindow, plugins, handlers, window, lookups,
                 failure, ranLoop, response, remembered>>

\* .setup(|_app| { ... }): the closure is stored, not executed.
BuilderSetup ==
  /\ pc = "setup"
  /\ setupHook' = TRUE
  /\ pc' = "invoke_handler"
  /\ UNCHANGED <<debug, mainWindow, plugins, handlers, window, lookups,
                 devtools, failure, ranLoop, response, remembered>>

\* .invoke_handler(tauri::generate_handler![greet])
BuilderInvokeHandler ==
  /\ pc = "invoke_handler"
  /\ handlers' = {"greet"}
  /\ pc' = "run"
  /\ UNCHANGED <<debug, mainWindow, plugins, setupHook, window, lookups,
                 devtools, failure, ranLoop, response, remembered>>

\* .run(tauri::generate_context!()): the host is built successfully.
HostBuildOk ==
  /\ pc = "run"
  /\ pc' = "setup_closure"
  /\ UNCHANGED <<debug, mainWindow, plugins, setupHook, handlers, window,
                 lookups, devtools, failure, ranLoop, response, remembered>>

\* The host's error swallowed: startup carries on after the failure.
HostBuildFailIgnored ==
  /\ pc = "run"
  /\ failure' = "host"
  /\ pc' = "setup_closure"
  /\ UNCHANGED <<debug, mainWindow, plugins, setupHook, handlers, window,
                 lookups, devtools, ranLoop, response, remembered>>

\* .run(...) returns Err and .expect("error while running tauri
\* application") panics.
HostBuildFail ==
  /\ pc = "run"
  /\ failure' = "host"
  /\ pc' = "terminated"
  /\ UNCHANGED <<debug, mainWindow, plugins, setupHook, handlers, window,
                 lookups, devtools, ranLoop, response, remembered>>

\* The window lookup compiled into every build.
SetupLookupAlways ==
  /\ pc = "setup_closure"
  /\ setupHook
  /\ window' = IF mainWindow THEN "some" ELSE "none"
  /\ lookups' = lookups + 1
  /\ pc' = "unwrap"
  /\ UNCHANGED <<debug, mainWindow, plugins, setupHook, handlers, devtools,
                 failure, ranLoop, response, remembered>>

\* Setup closure, #[cfg(debug_assertions)] block:
\* _app.get_webview_window("main")
SetupLookup ==
  /\ pc = "setup_closure"
  /\ setupHook
  /\ debug
  /\ window' = IF mainWindow THEN "some" ELSE "none"
  /\ lookups' = lookups + 1
  /\ pc' = "unwrap"
  /\ UNCHANGED <<debug, mainWindow, plugins, setupHook, handlers, devtools,
                 failure, ranLoop, response, remembered>>

\* Setup closure in a release build: the cfg block is compiled out.
SetupSkip ==
  /\ pc = "setup_closure"
  /\ setupHook
  /\ ~debug
  /\ pc' = "setup_ok"
  /\ UNCHANGED <<debug, mainWindow, plugins, setupHook, handlers, window,
                 lookups, devtools, failure, ranLoop, response, remembered>>

\* .unwrap() on Some(window)
SetupUnwrapSome ==
  /\ pc = "unwrap"
  /\ window = "some"
  /\ pc' = "open_devtools"
  /\ UNCHANGED <<debug, mainWindow, plugins, setupHook, handlers, window,
                 lookups, devtools, failure, ranLoop, response, remembered>>

\* A missing window tolerated: the closure skips the devtools call.
SetupUnwrapNoneTolerated ==
  /\ pc = "unwrap"
  /\ window = "none"
  /\ pc' = "setup_ok"
  /\ UNCHANGED <<debug, mainWindow, plugins, setupHook, handlers, window,
                 lookups, devtools, failure, ranLoop, response, remembered>>

\* .unwrap() on None panics.
SetupUnwrapNone ==
  /\ pc = "unwrap"
  /\ window = "none"
  /\ failure' = "window"
  /\ pc' = "terminated"
  /\ UNCHANGED <<debug, mainWindow, plugins, setupHook, handlers, window,
                 lookups, devtools, ranLoop, response, remembered>>

\* The inspector opened twice.
SetupOpenDevtoolsTwice ==
  /\ pc = "open_devtools"
  /\ devtools' = devtools + 2
  /\ pc' = "setup_ok"
  /\ UNCHANGED <<debug, mainWindow, plugins, setupHook, handlers, window,
                 lookups, failure, ranLoop, response, remembered>>

\* window.open_devtools()
SetupOpenDevtools ==
  /\ pc = "open_devtools"
  /\ devtools' = devtools + 1
  /\ pc' = "setup_ok"
  /\ UNCHANGED <<debug, mainWindow, plugins, setupHook, handlers, window,
                 lookups, failure, ranLoop, response, remembered>>

\* Ok(()) : the closure succeeds and the host enters its run loop.
SetupOk ==
  /\ pc = "setup_ok"
  /\ pc' = "loop"
  /\ ranLoop' = TRUE
  /\ UNCHANGED <<debug, mainWindow, plugins, setupHook, handlers, window,
                 lookups, devtools, failure, response, remembered>>

\* The frontend keeps the previous answer or the one it already holds.
Remember == remembered' \in {remembered, response}

\* A greet that also touches the host: it opens the inspector.
InvokeGreetOpensDevtools(name) ==
  /\ pc = "loop"
  /\ "greet" \in handlers
  /\ response' = [cmd |-> "greet", arg |-> name, ok |-> TRUE,
                  value |-> greet(name)]
  /\ Remember
  /\ devtools' = devtools + 1
  /\ UNCHANGED <<debug, mainWindow, pc, plugins, setupHook, handlers, window,
                 lookups, failure, ranLoop>>

\* The frontend invokes "greet" with a name; the generated handler calls
\* greet and resolves the invocation with its return value.
InvokeGreet(name) ==
  /\ pc = "loop"
  /\ "greet" \in handlers
  /\ response' = [cmd |-> "greet", arg |-> name, ok |-> TRUE,
                  value |-> greet(name)]
  /\ Remember
  /\ UNCHANGED appVars

\* The frontend invokes a command generate_handler! was not given: the
\* invocation is rejected whatever its arguments.
InvokeUnknown ==
  /\ pc = "loop"
  /\ "other" \notin handlers
  /\ response' = [cmd |-> "other", arg |-> <<>>, ok |-> FALSE,
                  value |-> <<>>]
  /\ Remember
  /\ UNCHANGED appVars

\* The run loop started over after an exit.
LoopExitRestart ==
  /\ pc = "loop"
  /\ pc' = "default"
  /\ UNCHANGED <<debug, mainWindow, plugins, setupHook, handlers, window,
                 lookups, devtools, failure, ranLoop, response, remembered>>

\* The application exits: the host's run loop ends and run() is over.
LoopExit ==
  /\ pc = "loop"
  /\ pc' = "terminated"
  /\ UNCHANGED <<debug, mainWindow, plugins, setupHook, handlers, window,
                 lookups, devtools, failure, ranLoop, response, remembered>>

Next ==
  \/ BuilderDefault
  \/ PluginLibmpv
  \/ PluginHttp
  \/ PluginStore
  \/ BuilderSetup
  \/ BuilderInvokeHandler
  \/ HostBuildOk
  \/ HostBuildFail
  \/ SetupLookup
  \/ SetupSkip
  \/ SetupUnwrapSome
  \/ SetupUnwrapNone
  \/ SetupOpenDevtools
  \/ SetupOk
  \/ \E name \in Names : InvokeGreet(name)
  \/ InvokeUnknown
  \/ LoopExit

Spec == Init /\ [][Next]_vars

(***************************************************************************)
(* Properties                                                              *)
(***************************************************************************)

\* The fixed text before and after the embedded name.
Hello == <<"H", "e", "l", "l", "o", ",", " ">>

Welcome ==
  <<"!", " ", "W", "e", "l", "c", "o", "m", "e", " ", "t", "o", " ",
    "S", "t", "r", "e", "a", "m", "i", "o", ".">>

\* C1: every answer to a greet invocation is a success carrying exactly
\* "Hello, " + name + "! Welcome to Streamio." with the name verbatim, and
\* for the empty name it is "Hello, ! Welcome to Streamio.".
GreetContract ==
  response.cmd = "greet" =>
    /\ response.ok
    /\ response.value = Hello \o response.arg \o Welcome
    /\ response.arg = <<>> => response.value = Hello \o Welcome

\* A greet invocation whose name is itself a placeholder has been answered.
GreetContractWitness ==
  /\ response.cmd = "greet"
  /\ response.arg = <<"{", "}">>
  /\ remembered.cmd = "greet"
  /\ remembered.arg = <<>>

\* C2: once startup has failed the process is terminated and the run loop
\* was never entered; no state combines a startup failure with a running or
\* restarted host.
StartupFailureTerminates ==
  failure # "none" => pc = "terminated" /\ Lifecycle = "terminated" /\ ~ranLoop

\* The host failed to start.
StartupFailureWitness == failure = "host" /\ pc = "terminated"

\* C3: a debug build that reaches the run loop has opened the inspector
\* exactly once, the inspector is never opened more than once, and a release
\* build never opens it.
InspectorOnce ==
  /\ devtools <= 1
  /\ debug /\ ranLoop => devtools = 1
  /\ ~debug => devtools = 0

\* A debug build is running, with invocations served, after one opening.
InspectorOnceWitness ==
  debug /\ pc = "loop" /\ devtools = 1 /\ response.cmd = "other"

\* C4: the attached plugins are always a prefix of <<libmpv, http, store>>
\* (hence none twice), and every run that is past registration has attached
\* exactly that sequence.
PluginOrderFixed ==
  /\ Len(plugins) <= Len(PluginOrder)
  /\ plugins = SubSeq(PluginOrder, 1, Len(plugins))
  /\ pc \notin {"default", "plugin_libmpv", "plugin_http", "plugin_store"}
       => plugins = PluginOrder

\* Registration is complete and the setup hook is about to be stored.
PluginOrderWitness == pc = "setup" /\ Len(plugins) = 3

\* C5: in a debug build where the lookup of "main" found nothing, the
\* inspector is not opened, the run loop is not entered, and the only step
\* taken is the panic that terminates the process.
MissingWindowAborts ==
  debug /\ window = "none" =>
    /\ devtools = 0
    /\ ~ranLoop
    /\ pc \in {"unwrap", "terminated"}
    /\ pc = "terminated" => failure = "window"

\* The unwrap of the missing window has panicked.
MissingWindowWitness ==
  debug /\ ~mainWindow /\ failure = "window" /\ pc = "terminated"

DevtoolsOrdered ==
  [][devtools' # devtools =>
       /\ plugins = PluginOrder
       /\ "greet" \in handlers
       /\ Lifecycle = "not_started"
       /\ ~ranLoop /\ ~ranLoop']_vars

\* The inspector is open and the run loop has not started yet.
DevtoolsOrderedWitness == devtools = 1 /\ pc = "setup_ok" /\ ~ranLoop

\* C8: the lifecycle only moves forward: not-started to running or
\* terminated, running to terminated, and nothing follows terminated.
LifecycleForward ==
  [][/\ Lifecycle # "terminated"
     /\ Lifecycle = "not_started"
          => Lifecycle' \in {"not_started", "running", "terminated"}
     /\ Lifecycle = "running" => Lifecycle' \in {"running", "terminated"}]_vars

\* The process terminated after having run.
LifecycleForwardWitness ==
  pc = "terminated" /\ ranLoop /\ failure = "none"

\* C9: while the host is running all three plugins are attached and greet
\* is bound.
RunningFullyRegistered ==
  Lifecycle = "running" =>
    /\ {plugins[i] : i \in DOMAIN plugins} = {"libmpv", "http", "store"}
    /\ "greet" \in handlers

\* The running host has dispatched a greet invocation.
RunningFullyRegisteredWitness ==
  pc = "loop" /\ response.cmd = "greet" /\ response.arg = <<"a">>

\* C10: a release build performs no window lookup, never fails on a missing
\* window, and terminates during startup only through a host failure.
ReleaseSetupNeverFails ==
  ~debug =>
    /\ lookups = 0
    /\ window = "unset"
    /\ failure \in {"none", "host"}
    /\ pc = "terminated" /\ ~ranLoop => failure = "host"

\* A release build without a "main" window is running.
ReleaseSetupWitness == ~debug /\ ~mainWindow /\ pc = "loop"

====
